---- MODULE Spec2Model ----
(***************************************************************************)
(* A model of the device-path and UTF-16 utilities of rust-uefi:           *)
(*   src/util/device_path.rs   parent_device_path                          *)
(*   src/protocol/device_path.rs  DevicePathProtocol::len / next and the   *)
(*                                DevicePathUtilitiesProtocol wrappers     *)
(*   src/util/mod.rs           utf16_strlen, utf16_ptr_to_str,             *)
(*                             str_to_utf16_ptr                            *)
(* Memory is modelled at the level of cells: a device path is a buffer of  *)
(* bytes, a UTF-16 string a buffer of 16-bit units, and a pointer is a     *)
(* buffer index together with an offset.                                   *)
(***************************************************************************)
EXTENDS Integers, Sequences, FiniteSets, TLC

\* ------------------------------------------------------------------------
\* Bounds of the model
\* ------------------------------------------------------------------------
\* Largest number of nodes placed before the terminator of an input path.
MaxNodes == 3
\* Largest number of characters (or UTF-16 units) of an input text.
MaxStrLen == 3

\* ------------------------------------------------------------------------
\* Constants of the program
\* ------------------------------------------------------------------------
DevicePathTypes_Hardware == 1
DevicePathTypes_Media == 4
DevicePathTypes_End == 127
HardwareSubTypes_PCI == 1
MediaSubTypes_FilePath == 4
EndPathSubTypes_EndInstance == 1
EndPathSubTypes_EndEntirePath == 255

\* A cell of a freshly allocated buffer, not yet written.
Uninit == -1
\* A pointer that has left the buffer it was derived from.
Wild == -1

VARIABLES
    pc,        \* position of the call in progress: "idle", "pdp_loop", "walk", "done", "fault"
    op,        \* the operation called
    pool,      \* memory: sequence of buffers [cells, live, frees, owner]
    calls,     \* firmware entry points invoked so far, in order
    result,    \* the value returned by the finished call
    srcNodes,  \* the nodes the input path was built from (ghost)
    walkBuf,   \* buffer the pointer of the running loop points into
    this,      \* this_device_path_ptr / the walk's current node, as an offset
    visited,   \* offsets at which the running loop stood, in order (ghost)
    wildWrite, \* TRUE once a header was written outside its buffer
    text,      \* the input text or input UTF-16 units of a codec call (ghost)
    allocStatus, \* the status the last allocate_pool returned
    lenArg,    \* the length bytes given to len()
    lenOut,    \* the value len() returned
    fwOut,     \* the pointer the firmware function of the call returned (0: null)
    fwArgs,    \* the arguments the firmware function of the call was given
    nullDeref, \* TRUE once a null pointer was dereferenced
    useAfterFree, \* TRUE once a freed buffer was read
    console,   \* the texts written to the console, in order
    serial,    \* the attributes cached in the SerialIOProtocol
    attrHistory, \* the arguments of the update_attributes calls so far (ghost)
    serialCalls, \* number of calls made on the SerialIOProtocol
    setStatus, \* the status the firmware's SetAttributes returned in the last call
    statusArg, \* the Status given to Status::str
    strOut,    \* what Status::str returned and what Display printed
    locateStatus, \* the status the last locate_protocol returned
    nameLen,   \* the filename_len of a create_file_device_node of a long name
    THIS_LOADED_IMAGE, \* the static of protocol/mod.rs (0: null)
    imageHistory \* the calls on the current image so far, in order (ghost)

\* The state of the text conversions, of the serial device and of Status::str.
serialVars == <<serial, attrHistory, serialCalls, setStatus>>
strVars == <<statusArg, strOut>>
imageVars == <<THIS_LOADED_IMAGE, imageHistory>>
ext == <<fwOut, fwArgs, nullDeref, useAfterFree, console, serialVars, strVars,
         nameLen, imageVars>>

vars == <<pc, op, pool, calls, result, srcNodes, walkBuf, this, visited,
          wildWrite, text, allocStatus, lenArg, lenOut, ext, locateStatus>>

\* ------------------------------------------------------------------------
\* Results
\* ------------------------------------------------------------------------
NoResult == [ok |-> FALSE, status |-> "none", val |-> 0, len |-> 0]
Err(status) == [ok |-> FALSE, status |-> status, val |-> 0, len |-> 0]
Ok(val, len) == [ok |-> TRUE, status |-> "Success", val |-> val, len |-> len]

\* ------------------------------------------------------------------------
\* Memory
\* ------------------------------------------------------------------------
\* A buffer the firmware hands out (a path attached to a handle, a text it
\* produced): borrowed by the callee.
FirmwareBuffer(cells) ==
    [cells |-> cells, live |-> TRUE, frees |-> 0, owner |-> "firmware"]

\* BootServices::allocate_pool, on success: a fresh buffer of n cells is added
\* to memory; its index is Len of the new memory.
allocate_pool(p, n) ==
    Append(p, [cells |-> [i \in 1..n |-> Uninit], live |-> TRUE, frees |-> 0,
               owner |-> "pool"])

\* BootServices::free_pool: hands the buffer back to the firmware.
free_pool(p, b) ==
    [p EXCEPT ![b].live = FALSE, ![b].frees = @ + 1]

\* *(ptr.offset(i)) = v, with i counted from 0.
WriteCell(p, b, i, v) == [p EXCEPT ![b].cells[i + 1] = v]

\* ------------------------------------------------------------------------
\* Integer arithmetic of the code
\* ------------------------------------------------------------------------
RECURSIVE BitOr(_, _)
BitOr(a, b) ==
    IF a = 0 THEN b
    ELSE IF b = 0 THEN a
    ELSE (IF a % 2 = 1 \/ b % 2 = 1 THEN 1 ELSE 0) + 2 * BitOr(a \div 2, b \div 2)

\* x << k on a u16.
Shl16(x, k) == (x * (2 ^ k)) % 65536

\* ------------------------------------------------------------------------
\* DevicePathProtocol
\* ------------------------------------------------------------------------
\* The header found at offset off of a byte buffer.
HeaderAt(cells, off) ==
    [type_ |-> cells[off + 1], sub_type |-> cells[off + 2],
     length |-> <<cells[off + 3], cells[off + 4]>>]

\* A plausible slip: the two length bytes read in big-endian order.
len_BigEndian(node) ==
    BitOr(node.length[2], Shl16(node.length[1], 8))

\* DevicePathProtocol::len
len(node) ==
    BitOr(node.length[1], Shl16(node.length[2], 8))

\* A plausible slip: every node taken to be header-only.
next_HeaderOnly(cells, off) == off + 4

\* DevicePathProtocol::next: the offset of the node after the one at off.
next(cells, off) == off + len(HeaderAt(cells, off))

\* A node whole inside its buffer.
InBounds(cells, off) == off >= 0 /\ off + 4 <= Len(cells)

\* ------------------------------------------------------------------------
\* Input paths
\* ------------------------------------------------------------------------
\* Hardware/PCI, header only.
NodePCI == <<DevicePathTypes_Hardware, HardwareSubTypes_PCI, 4, 0>>
\* Media/FilePath with two payload bytes (which happen to look like an End header).
NodeFile == <<DevicePathTypes_Media, MediaSubTypes_FilePath, 6, 0, 127, 255>>
\* End of one instance of a multi-instance path.
NodeEndInstance == <<DevicePathTypes_End, EndPathSubTypes_EndInstance, 4, 0>>
\* The terminator.
NodeEndEntire == <<DevicePathTypes_End, EndPathSubTypes_EndEntirePath, 4, 0>>
\* Malformed nodes: a length field of 0, and one of 2.
NodeLen0 == <<DevicePathTypes_Hardware, HardwareSubTypes_PCI, 0, 0>>
NodeLen2 == <<DevicePathTypes_Hardware, HardwareSubTypes_PCI, 2, 0>>

InputNodes == {NodePCI, NodeFile, NodeEndInstance, NodeLen0, NodeLen2}

\* Sequences of at most n elements of S.
SeqUpTo(S, n) == UNION {[1..k -> S] : k \in 0..n}

\* The paths given to the operations: some nodes, then the terminator.
InputPaths == {Append(ns, NodeEndEntire) : ns \in SeqUpTo(InputNodes, MaxNodes)}

RECURSIVE Flatten(_)
Flatten(nodes) ==
    IF nodes = <<>> THEN <<>> ELSE Head(nodes) \o Flatten(Tail(nodes))

\* Offset of the i-th node of a path, from the sizes of the nodes before it.
RECURSIVE OffsetOf(_, _)
OffsetOf(nodes, i) ==
    IF i <= 1 THEN 0 ELSE OffsetOf(nodes, i - 1) + Len(nodes[i - 1])

IsEndNode(node) == node[1] = DevicePathTypes_End
IsTerminator(node) ==
    node[1] = DevicePathTypes_End /\ node[2] = EndPathSubTypes_EndEntirePath

\* Well-formed: every node's length field is its size and at least 4, and the
\* last node is End/EndEntirePath.
WellFormed(nodes) ==
    /\ nodes # <<>>
    /\ \A i \in 1..Len(nodes) :
          /\ Len(nodes[i]) >= 4
          /\ nodes[i][3] + 256 * nodes[i][4] = Len(nodes[i])
    /\ IsTerminator(nodes[Len(nodes)])

\* Number of offsets recorded in visited before recording stops.
VisitCap == MaxNodes + 3

Visit(v, off) == IF Len(v) < VisitCap THEN Append(v, off) ELSE v

\* ------------------------------------------------------------------------
\* parent_device_path
\* ------------------------------------------------------------------------
\* A plausible slip: only a terminator counts as "already an end".
AlreadyEnd_OnlyTerminator(cells) ==
    /\ HeaderAt(cells, 0).type_ = DevicePathTypes_End
    /\ HeaderAt(cells, 0).sub_type = EndPathSubTypes_EndEntirePath

\* if src_device_path.type_ == DevicePathTypes::End.into()
AlreadyEnd(cells) == HeaderAt(cells, 0).type_ = DevicePathTypes_End

\* A plausible slip: the length bytes of the new terminator swapped.
Truncate_SwappedLength(cells, off) ==
    [i \in 1..Len(cells) |->
        IF i = off + 1 THEN DevicePathTypes_End
        ELSE IF i = off + 2 THEN EndPathSubTypes_EndEntirePath
        ELSE IF i = off + 3 THEN 0
        ELSE IF i = off + 4 THEN 4
        ELSE cells[i]]

\* (*this).type_ = End; (*this).sub_type = EndEntirePath; (*this).length = [4, 0]
Truncate(cells, off) ==
    [i \in 1..Len(cells) |->
        IF i = off + 1 THEN DevicePathTypes_End
        ELSE IF i = off + 2 THEN EndPathSubTypes_EndEntirePath
        ELSE IF i = off + 3 THEN 4
        ELSE IF i = off + 4 THEN 0
        ELSE cells[i]]

\* ------------------------------------------------------------------------
\* BootServices::locate_protocol and the DevicePathUtilitiesProtocol wrappers
\* ------------------------------------------------------------------------
\* Statuses with which the firmware's LocateProtocol fails.
LocateFailures == {"NotFound", "InvalidParameter"}

\* A plausible slip: every failed lookup reported as NotFound.
locate_protocol_AlwaysNotFound(status) ==
    IF status # "Success" THEN Err("NotFound") ELSE Ok(0, 0)

\* BootServices::locate_protocol: its result, from the status of the firmware.
locate_protocol(status) ==
    IF status # "Success" THEN Err(status) ELSE Ok(0, 0)

\* DevicePathUtilitiesProtocol::duplicate_device_path: its result, from the
\* pointer out the firmware returned (0 is the null pointer).
duplicate_device_path(out) ==
    IF out = 0 THEN Err("OutOfResources") ELSE Ok(out, 0)

\* DevicePathUtilitiesProtocol::append_device_path
append_device_path(out) ==
    IF out = 0 THEN Err("OutOfResources") ELSE Ok(out, 0)

\* DevicePathUtilitiesProtocol::append_device_node
append_device_node(out) ==
    IF out = 0 THEN Err("OutOfResources") ELSE Ok(out, 0)

\* A plausible slip: the error of the other three wrappers copied.
create_device_node_OutOfResources(out) ==
    IF out = 0 THEN Err("OutOfResources") ELSE Ok(out, 0)

\* DevicePathUtilitiesProtocol::create_device_node
create_device_node(out) ==
    IF out = 0 THEN Err("InvalidParameter") ELSE Ok(out, 0)

\* The source path as the caller holds it: buffer 1, owned by the firmware.
SourceMemory(nodes) == <<FirmwareBuffer(Flatten(nodes))>>

\* The call leaves everything but its result and the firmware log alone.
PdpReturn(r, log) ==
    /\ pc' = "done"
    /\ op' = "parent_device_path"
    /\ result' = r
    /\ calls' = log
    /\ UNCHANGED <<walkBuf, this, visited, wildWrite, text, allocStatus, lenArg, lenOut, ext>>

\* The path is already an end: Err(InvalidParameter), nothing else is done.
parent_device_path_reject ==
    /\ pc = "idle"
    /\ \E nodes \in InputPaths :
          /\ AlreadyEnd(Flatten(nodes))
          /\ srcNodes' = nodes
          /\ pool' = SourceMemory(nodes)
          /\ UNCHANGED locateStatus
          /\ PdpReturn(Err("InvalidParameter"), <<>>)

\* locate_protocol fails: and_then passes its status on.
parent_device_path_locate_fails ==
    /\ pc = "idle"
    /\ \E nodes \in InputPaths, status \in {"NotFound", "InvalidParameter"} :
          /\ ~AlreadyEnd(Flatten(nodes))
          /\ srcNodes' = nodes
          /\ pool' = SourceMemory(nodes)
          /\ locateStatus' = status
          /\ PdpReturn(locate_protocol(status), <<"locate_protocol">>)

\* duplicate_device_path gets a null pointer from the firmware.
parent_device_path_duplicate_fails ==
    /\ pc = "idle"
    /\ \E nodes \in InputPaths :
          /\ ~AlreadyEnd(Flatten(nodes))
          /\ srcNodes' = nodes
          /\ pool' = SourceMemory(nodes)
          /\ locateStatus' = "Success"
          /\ PdpReturn(duplicate_device_path(0),
                       <<"locate_protocol", "duplicate_device_path">>)

\* A plausible slip: the loop runs on the source path, not on the duplicate.
LoopBuffer_Source(src, device_path) == src

\* let mut this_device_path_ptr = device_path as *mut DevicePathProtocol
LoopBuffer(src, device_path) == device_path

\* The firmware returns a copy of the path in a buffer of its pool, and the
\* loop starts at the head of the copy.
parent_device_path_duplicate ==
    /\ pc = "idle"
    /\ \E nodes \in InputPaths :
          /\ ~AlreadyEnd(Flatten(nodes))
          /\ srcNodes' = nodes
          /\ pool' = Append(SourceMemory(nodes),
                            [cells |-> Flatten(nodes), live |-> TRUE,
                             frees |-> 0, owner |-> "pool"])
          /\ walkBuf' = LoopBuffer(1, 2)
          /\ this' = 0
          /\ visited' = <<0>>
          /\ pc' = "pdp_loop"
          /\ op' = "parent_device_path"
          /\ calls' = <<"locate_protocol", "duplicate_device_path">>
          /\ locateStatus' = "Success"
          /\ UNCHANGED <<result, wildWrite, text, allocStatus, lenArg, lenOut, ext>>

\* A plausible slip: the loop stops only before the terminator of the path.
StopsBefore_TerminatorOnly(cells, next_device_path_ptr) ==
    /\ cells[next_device_path_ptr + 1] = DevicePathTypes_End
    /\ cells[next_device_path_ptr + 2] = EndPathSubTypes_EndEntirePath

\* if next_device_path.type_ == DevicePathTypes::End.into()
StopsBefore(cells, next_device_path_ptr) ==
    cells[next_device_path_ptr + 1] = DevicePathTypes_End

\* One iteration of the loop, every byte it touches inside the buffer.
parent_device_path_loop ==
    /\ pc = "pdp_loop"
    /\ InBounds(pool[walkBuf].cells, this)
    /\ LET cells == pool[walkBuf].cells
           next_device_path_ptr == next(cells, this)
       IN  /\ next_device_path_ptr < Len(cells)
           /\ IF StopsBefore(cells, next_device_path_ptr)
              THEN /\ pool' = [pool EXCEPT ![walkBuf].cells = Truncate(cells, this)]
                   /\ result' = Ok(2, 0)
                   /\ pc' = "done"
                   /\ UNCHANGED <<this, visited>>
              ELSE /\ this' = next_device_path_ptr
                   /\ visited' = Visit(visited, next_device_path_ptr)
                   /\ UNCHANGED <<pool, result, pc>>
    /\ UNCHANGED <<op, calls, srcNodes, walkBuf, wildWrite, text, allocStatus, lenArg, lenOut, locateStatus, ext>>

\* One iteration that reads outside the buffer: undefined behaviour.  The type
\* read there may be End or not, or the read may fault.
parent_device_path_loop_wild ==
    /\ pc = "pdp_loop"
    /\ LET cells == pool[walkBuf].cells
       IN  \/ /\ InBounds(cells, this)
              /\ next(cells, this) >= Len(cells)
              /\ \/ /\ pool' = [pool EXCEPT ![walkBuf].cells = Truncate(cells, this)]
                    /\ result' = Ok(2, 0)
                    /\ pc' = "done"
                    /\ UNCHANGED <<this, visited, wildWrite>>
                 \/ /\ this' = Wild
                    /\ visited' = Visit(visited, Wild)
                    /\ UNCHANGED <<pool, result, pc, wildWrite>>
                 \/ /\ pc' = "fault"
                    /\ UNCHANGED <<pool, result, this, visited, wildWrite>>
           \/ /\ ~InBounds(cells, this)
              /\ \/ /\ wildWrite' = TRUE
                    /\ result' = Ok(2, 0)
                    /\ pc' = "done"
                    /\ UNCHANGED <<pool, this, visited>>
                 \/ /\ this # Wild
                    /\ this' = Wild
                    /\ visited' = Visit(visited, Wild)
                    /\ UNCHANGED <<pool, result, pc, wildWrite>>
                 \/ /\ pc' = "fault"
                    /\ UNCHANGED <<pool, result, this, visited, wildWrite>>
    /\ UNCHANGED <<op, calls, srcNodes, walkBuf, text, allocStatus, lenArg, lenOut, locateStatus, ext>>

\* ------------------------------------------------------------------------
\* The chain walk: current = current.next() until End/EndEntirePath
\* ------------------------------------------------------------------------
\* A caller starts a walk at the head of a path it borrowed from the firmware.
walk_begin ==
    /\ pc = "idle"
    /\ \E nodes \in InputPaths :
          /\ srcNodes' = nodes
          /\ pool' = SourceMemory(nodes)
    /\ walkBuf' = 1
    /\ this' = 0
    /\ visited' = <<0>>
    /\ pc' = "walk"
    /\ op' = "walk"
    /\ UNCHANGED <<calls, result, wildWrite, text, allocStatus, lenArg, lenOut, locateStatus, ext>>

\* The walk tests the node it stands on and stops at the terminator, or moves
\* to next().
walk_step ==
    /\ pc = "walk"
    /\ InBounds(pool[walkBuf].cells, this)
    /\ LET cells == pool[walkBuf].cells
           node == HeaderAt(cells, this)
       IN  IF /\ node.type_ = DevicePathTypes_End
              /\ node.sub_type = EndPathSubTypes_EndEntirePath
           THEN /\ pc' = "done"
                /\ result' = Ok(walkBuf, this)
                /\ UNCHANGED <<this, visited>>
           ELSE /\ this' = next(cells, this)
                /\ visited' = Visit(visited, next(cells, this))
                /\ UNCHANGED <<pc, result>>
    /\ UNCHANGED <<op, pool, calls, srcNodes, walkBuf, wildWrite, text, allocStatus, lenArg, lenOut, locateStatus, ext>>

\* The walk stands on a header that is not inside the buffer: the read is
\* undefined; it may fault, or find what looks like a terminator.
walk_wild ==
    /\ pc = "walk"
    /\ ~InBounds(pool[walkBuf].cells, this)
    /\ \/ /\ pc' = "fault"
          /\ UNCHANGED result
       \/ /\ pc' = "done"
          /\ result' = Ok(walkBuf, Wild)
    /\ UNCHANGED <<op, pool, calls, srcNodes, walkBuf, this, visited, wildWrite,
                   text, allocStatus, lenArg, lenOut, locateStatus, ext>>

\* ------------------------------------------------------------------------
\* len() on its own
\* ------------------------------------------------------------------------
\* Values of the high length byte tried (the low byte takes every value).
HighBytes == {0, 1, 2, 127, 128, 255}

len_call ==
    /\ pc = "idle"
    /\ \E b0 \in 0..255, b1 \in HighBytes :
          /\ lenArg' = <<b0, b1>>
          /\ lenOut' = len([type_ |-> DevicePathTypes_Hardware,
                            sub_type |-> HardwareSubTypes_PCI,
                            length |-> <<b0, b1>>])
    /\ pc' = "done"
    /\ op' = "len"
    /\ UNCHANGED <<pool, calls, result, srcNodes, walkBuf, this, visited,
                   wildWrite, text, allocStatus, locateStatus, ext>>

\* ------------------------------------------------------------------------
\* UTF-16 <-> text (src/util/mod.rs)
\* ------------------------------------------------------------------------
\* Characters of the input texts: NUL, two ASCII letters, and characters that
\* need 2 and 4 bytes in UTF-8 (the last one is 0x10041, whose low 16 bits
\* are the letter A).
CharSamples == {0, 65, 127, 128, 233, 65601}
\* Code units of the UTF-16 texts the firmware hands out.
UnitSamples == {65, 127, 128, 233, 65535}

Texts == SeqUpTo(CharSamples, MaxStrLen)
FirmwareTexts == SeqUpTo(UnitSamples, MaxStrLen)

\* Statuses allocate_pool can return.
AllocStatuses == {"Success", "OutOfResources"}

\* char::len_utf8
len_utf8(c) ==
    IF c < 128 THEN 1 ELSE IF c < 2048 THEN 2 ELSE IF c < 65536 THEN 3 ELSE 4

\* str::len: the length of a text in bytes.
RECURSIVE str_len(_)
str_len(chars) ==
    IF chars = <<>> THEN 0 ELSE len_utf8(Head(chars)) + str_len(Tail(chars))

\* while *(c.offset(len)) != 0 { len += 1 }
RECURSIVE ScanForZero(_, _)
ScanForZero(cells, n) ==
    IF cells[n + 1] # 0 THEN ScanForZero(cells, n + 1) ELSE n

\* A plausible slip: the terminator counted as part of the string.
utf16_strlen_CountsTerminator(cells) == ScanForZero(cells, 0) + 1

\* utf16_strlen
utf16_strlen(cells) == ScanForZero(cells, 0)

\* A plausible slip: the error path forgets the buffer.
FreeOnNonAscii_Leak(p, raw_u8_ptr) == p

\* free_pool(raw_u8_ptr) before Err(InvalidParameter)
FreeOnNonAscii(p, raw_u8_ptr) == free_pool(p, raw_u8_ptr)

\* utf16_ptr_to_str(chars): the memory, the result and the firmware calls of
\* the call, given the status allocate_pool returns.
utf16_ptr_to_str(p, chars, status) ==
    LET cells == p[chars].cells
        strlen == utf16_strlen(cells)
    IN  IF status # "Success"
        THEN [pool |-> p, result |-> Err(status), calls |-> <<"allocate_pool">>]
        ELSE
          LET p1 == allocate_pool(p, strlen)
              raw_u8_ptr == Len(p1)
              \* the first i (from 1) whose unit is not ASCII, strlen + 1 if none
              stop == CHOOSE i \in 1..(strlen + 1) :
                         /\ i = strlen + 1 \/ cells[i] >= 128
                         /\ \A j \in 1..(i - 1) : cells[j] < 128
              copied == [p1 EXCEPT ![raw_u8_ptr].cells =
                           [i \in 1..strlen |->
                               IF i < stop THEN cells[i] % 256 ELSE Uninit]]
          IN  IF stop <= strlen
              THEN [pool |-> FreeOnNonAscii(copied, raw_u8_ptr),
                    result |-> Err("InvalidParameter"),
                    calls |-> <<"allocate_pool", "free_pool">>]
              ELSE [pool |-> copied,
                    result |-> Ok(raw_u8_ptr, strlen),
                    calls |-> <<"allocate_pool">>]

\* A plausible slip: no room asked for the terminator.
AllocUnits_NoTerminator(chars) == str_len(chars)

\* chars.len() + 1: the number of units asked of allocate_pool.
AllocUnits(chars) == str_len(chars) + 1

\* A plausible slip: the error path forgets the buffer.
FreeOnWideChar_Leak(p, u16_ptr) == p

\* free_pool(u16_ptr) before Err(Unsupported)
FreeOnWideChar(p, u16_ptr) == free_pool(p, u16_ptr)

\* str_to_utf16_ptr(chars): the memory, the result and the firmware calls of
\* the call, given the status allocate_pool returns.
str_to_utf16_ptr(p, chars, status) ==
    IF status # "Success"
    THEN [pool |-> p, result |-> Err(status), calls |-> <<"allocate_pool">>]
    ELSE
      LET n == Len(chars)
          p1 == allocate_pool(p, AllocUnits(chars))
          u16_ptr == Len(p1)
          \* the first i (from 1) whose character is wider than a byte
          stop == CHOOSE i \in 1..(n + 1) :
                     /\ i = n + 1 \/ len_utf8(chars[i]) > 1
                     /\ \A j \in 1..(i - 1) : len_utf8(chars[j]) = 1
          copied == [p1 EXCEPT ![u16_ptr].cells =
                       [i \in 1..AllocUnits(chars) |->
                           IF i < stop THEN chars[i] % 65536 ELSE Uninit]]
      IN  IF stop <= n
          THEN [pool |-> FreeOnWideChar(copied, u16_ptr),
                result |-> Err("Unsupported"),
                calls |-> <<"allocate_pool", "free_pool">>]
          ELSE [pool |-> WriteCell(copied, u16_ptr, str_len(chars), 0),
                result |-> Ok(u16_ptr, 0),
                calls |-> <<"allocate_pool">>]

\* A caller encodes a text.
str_to_utf16_ptr_call ==
    /\ pc = "idle"
    /\ \E chars \in Texts, status \in AllocStatuses :
          LET r == str_to_utf16_ptr(pool, chars, status)
          IN  /\ pool' = r.pool
              /\ result' = r.result
              /\ calls' = calls \o r.calls
              /\ text' = chars
              /\ allocStatus' = status
    /\ pc' = "done"
    /\ op' = "str_to_utf16_ptr"
    /\ UNCHANGED <<srcNodes, walkBuf, this, visited, wildWrite, lenArg, lenOut, locateStatus, ext>>

\* The caller decodes the buffer it has just encoded.
utf16_ptr_to_str_of_encoded ==
    /\ pc = "done"
    /\ op = "str_to_utf16_ptr"
    /\ result.ok
    /\ \E status \in AllocStatuses :
          LET r == utf16_ptr_to_str(pool, result.val, status)
          IN  /\ pool' = r.pool
              /\ result' = r.result
              /\ calls' = calls \o r.calls
              /\ allocStatus' = status
    /\ op' = "round_trip"
    /\ UNCHANGED <<pc, text, srcNodes, walkBuf, this, visited, wildWrite,
                   lenArg, lenOut, locateStatus, ext>>

\* A caller decodes a null-terminated text that the firmware produced.
utf16_ptr_to_str_call ==
    /\ pc = "idle"
    /\ \E units \in FirmwareTexts, status \in AllocStatuses :
          LET r == utf16_ptr_to_str(<<FirmwareBuffer(Append(units, 0))>>, 1, status)
          IN  /\ pool' = r.pool
              /\ result' = r.result
              /\ calls' = calls \o r.calls
              /\ text' = units
              /\ allocStatus' = status
    /\ pc' = "done"
    /\ op' = "utf16_ptr_to_str"
    /\ UNCHANGED <<srcNodes, walkBuf, this, visited, wildWrite, lenArg, lenOut, locateStatus, ext>>

\* ------------------------------------------------------------------------
\* create_file_device_node (src/util/device_path.rs)
\* ------------------------------------------------------------------------
\* Statuses locate_protocol can return.
LocateStatuses == {"Success"} \cup LocateFailures

\* The node the firmware's CreateDeviceNode hands out: length bytes from the
\* pool, the header filled in, the payload not yet written.
CreatedNode(type_, sub_type, length) ==
    [cells |-> [i \in 1..length |->
                   IF i = 1 THEN type_
                   ELSE IF i = 2 THEN sub_type
                   ELSE IF i = 3 THEN length % 256
                   ELSE IF i = 4 THEN length \div 256
                   ELSE Uninit],
     live |-> TRUE, frees |-> 0, owner |-> "pool"]

\* A plausible slip: no room for the terminator.
FileNodeSize_NoTerminator(filename_len) == 4 + filename_len * 2

\* node_size_bytes
FileNodeSize(filename_len) == 4 + (filename_len + 1) * 2

\* node_size_bytes as u16
AsU16(n) == n % 65536

\* *node_filename_ptr.offset(i) = u: a u16 stored at byte 4 + 2 * i of the
\* node, low byte first; a store past the end of the node leaves it alone.
WriteUnit(p, node_ptr, i, u) ==
    IF 4 + 2 * i + 2 <= Len(p[node_ptr].cells)
    THEN [p EXCEPT ![node_ptr].cells[4 + 2 * i + 1] = u % 256,
                   ![node_ptr].cells[4 + 2 * i + 2] = u \div 256]
    ELSE p

\* for i in 0..filename_len { *node_filename_ptr.offset(i) = *filename_ptr.offset(i) }
RECURSIVE CopyFilename(_, _, _, _, _)
CopyFilename(p, node_ptr, filename_ptr, i, filename_len) ==
    IF i >= filename_len THEN p
    ELSE CopyFilename(WriteUnit(p, node_ptr, i, p[filename_ptr].cells[i + 1]),
                      node_ptr, filename_ptr, i + 1, filename_len)

\* The filename_len + 1 units stored from byte 4 on end after the node_length
\* bytes of the node.
WritesPastNode(filename_len, node_length) ==
    4 + (filename_len + 1) * 2 > node_length

\* create_file_device_node(filename): the memory, the result, the firmware
\* calls and the arguments handed to CreateDeviceNode, given the status of
\* allocate_pool, the status of locate_protocol and whether the firmware
\* creates the node.
create_file_device_node(p, filename, status, lstatus, created) ==
    LET enc == str_to_utf16_ptr(p, filename, status)
    IN  IF ~enc.result.ok
        THEN [pool |-> enc.pool, result |-> enc.result, calls |-> enc.calls,
              args |-> <<>>, out |-> 0, located |-> "none", wild |-> FALSE]
        ELSE
          LET filename_ptr == enc.result.val
              filename_len == utf16_strlen(enc.pool[filename_ptr].cells)
              node_size_bytes == FileNodeSize(filename_len)
              log1 == Append(enc.calls, "locate_protocol")
          IN  IF ~locate_protocol(lstatus).ok
              THEN [pool |-> enc.pool, result |-> locate_protocol(lstatus),
                    calls |-> log1, args |-> <<>>, out |-> 0,
                    located |-> lstatus, wild |-> FALSE]
              ELSE
                LET args == <<DevicePathTypes_Media, MediaSubTypes_FilePath,
                              AsU16(node_size_bytes)>>
                    log2 == Append(log1, "create_device_node")
                    p1 == Append(enc.pool, CreatedNode(args[1], args[2], args[3]))
                    node_ptr == IF created THEN Len(p1) ELSE 0
                IN  IF ~create_device_node(node_ptr).ok
                    THEN [pool |-> enc.pool, result |-> create_device_node(node_ptr),
                          calls |-> log2, args |-> args, out |-> 0,
                          located |-> lstatus, wild |-> FALSE]
                    ELSE [pool |-> WriteUnit(CopyFilename(p1, node_ptr, filename_ptr,
                                                          0, filename_len),
                                             node_ptr, filename_len, 0),
                          result |-> create_device_node(node_ptr),
                          calls |-> log2, args |-> args, out |-> node_ptr,
                          located |-> lstatus,
                          wild |-> WritesPastNode(filename_len, args[3])]

\* A caller asks for the node of a file name.
create_file_device_node_call ==
    /\ pc = "idle"
    /\ \E chars \in Texts, status \in AllocStatuses, lstatus \in LocateStatuses,
          created \in BOOLEAN :
          LET r == create_file_device_node(pool, chars, status, lstatus, created)
          IN  /\ pool' = r.pool
              /\ result' = r.result
              /\ calls' = calls \o r.calls
              /\ fwArgs' = r.args
              /\ fwOut' = r.out
              /\ locateStatus' = r.located
              /\ wildWrite' = r.wild
              /\ text' = chars
              /\ allocStatus' = status
    /\ pc' = "done"
    /\ op' = "create_file_device_node"
    /\ UNCHANGED <<srcNodes, walkBuf, this, visited, nameLen, imageVars, lenArg, lenOut, nullDeref,
                   useAfterFree, console, serialVars, strVars>>

\* Lengths of long file names, around those where 4 + (n + 1) * 2 passes
\* the largest u16.
LongNameLengths == {32764, 32765, 32766, 32767, 65534}

\* create_file_device_node on a file name of filename_len ASCII characters
\* when the allocation, the lookup and the creation succeed: the length asked
\* of the firmware and the extent of the stores, the contents of the memory
\* left out.
create_file_device_node_long ==
    /\ pc = "idle"
    /\ \E filename_len \in LongNameLengths :
          LET node_size_bytes == FileNodeSize(filename_len)
              args == <<DevicePathTypes_Media, MediaSubTypes_FilePath,
                        AsU16(node_size_bytes)>>
          IN  /\ nameLen' = filename_len
              /\ fwArgs' = args
              /\ wildWrite' = WritesPastNode(filename_len, args[3])
              /\ result' = create_device_node(2)
    /\ calls' = calls \o <<"allocate_pool", "locate_protocol", "create_device_node">>
    /\ allocStatus' = "Success"
    /\ locateStatus' = "Success"
    /\ fwOut' = 2
    /\ pc' = "done"
    /\ op' = "create_file_device_node_long"
    /\ UNCHANGED <<pool, srcNodes, walkBuf, this, visited, text, lenArg, lenOut,
                   nullDeref, useAfterFree, console, serialVars, strVars,
                   imageVars>>

\* ------------------------------------------------------------------------
\* DevicePathToTextProtocol and DevicePathFromTextProtocol
\* (src/protocol/device_path.rs)
\* ------------------------------------------------------------------------
ToTextFns == {"device_path_node_to_text", "device_path_to_text"}
FromTextFns == {"text_to_device_path_node", "text_to_device_path"}
PrintFns == {"print_device_path_node", "print_device_path"}

\* The conversion a print function wraps.
ToTextOf(fn) ==
    IF fn = "print_device_path_node" THEN "device_path_node_to_text"
    ELSE "device_path_to_text"

\* The null-terminated text the firmware's conversion hands out, from the pool.
FirmwareText(units) ==
    [cells |-> Append(units, 0), live |-> TRUE, frees |-> 0, owner |-> "pool"]

\* What a read of address 0 finds when it does not fault: memory that is no
\* buffer of the pool.
LowMemory(units) ==
    [cells |-> Append(units, 0), live |-> TRUE, frees |-> 0, owner |-> "address0"]

\* A plausible slip: the buffer released before it is decoded.
ToTextSteps_FreeFirst == <<"free_pool", "utf16_ptr_to_str">>

\* The statements of device_path_to_text after the firmware returned chars.
ToTextSteps == <<"utf16_ptr_to_str", "free_pool">>

\* The statements run in order on st = [pool, result, calls, readFreed].
RECURSIVE RunToText(_, _, _, _)
RunToText(steps, st, chars, status) ==
    IF steps = <<>> THEN st
    ELSE IF Head(steps) = "utf16_ptr_to_str"
    THEN LET out == utf16_ptr_to_str(st.pool, chars, status)
         IN  RunToText(Tail(steps),
                       [pool |-> out.pool, result |-> out.result,
                        calls |-> st.calls \o out.calls,
                        readFreed |-> st.readFreed \/ ~st.pool[chars].live],
                       chars, status)
    ELSE RunToText(Tail(steps),
                   [st EXCEPT !.pool = free_pool(@, chars),
                              !.calls = Append(@, "free_pool")],
                   chars, status)

\* device_path_node_to_text / device_path_to_text when the firmware returns
\* the text units: the memory, the result and the firmware calls, given the
\* status allocate_pool returns. chars is the buffer the firmware returned.
device_path_to_text(fn, p, units, status) ==
    LET p0 == Append(p, FirmwareText(units))
        chars == Len(p0)
        st == RunToText(ToTextSteps,
                        [pool |-> p0, result |-> NoResult, calls |-> <<fn>>,
                         readFreed |-> FALSE],
                        chars, status)
    IN  [pool |-> st.pool, result |-> st.result, calls |-> st.calls,
         chars |-> chars, readFreed |-> st.readFreed]

\* The same when the firmware returns null and the read of address 0 does not
\* fault: utf16_strlen and the copy run over whatever units lie there, and
\* free_pool is then called with the null pointer.
device_path_to_text_null(fn, p, units, status) ==
    LET p0 == Append(p, LowMemory(units))
        out == utf16_ptr_to_str(p0, Len(p0), status)
    IN  [pool |-> out.pool, result |-> out.result,
         calls |-> <<fn>> \o out.calls \o <<"free_pool">>,
         chars |-> 0, readFreed |-> FALSE]

\* A caller converts a node or a path to text; the firmware returns a text.
device_path_to_text_call ==
    /\ pc = "idle"
    /\ \E fn \in ToTextFns, units \in FirmwareTexts, status \in AllocStatuses :
          LET r == device_path_to_text(fn, pool, units, status)
          IN  /\ op' = fn
              /\ pool' = r.pool
              /\ result' = r.result
              /\ calls' = calls \o r.calls
              /\ fwOut' = r.chars
              /\ useAfterFree' = r.readFreed
              /\ text' = units
              /\ allocStatus' = status
    /\ pc' = "done"
    /\ UNCHANGED <<srcNodes, walkBuf, this, visited, nameLen, imageVars, wildWrite, lenArg, lenOut,
                   fwArgs, nullDeref, console, serialVars, strVars, locateStatus>>

\* The same call when the firmware returns null: the code reads address 0.
device_path_to_text_call_null ==
    /\ pc = "idle"
    /\ \E fn \in ToTextFns :
          /\ op' = fn
          /\ \/ /\ pc' = "fault"
                /\ calls' = Append(calls, fn)
                /\ UNCHANGED <<pool, result, text, allocStatus>>
             \/ \E units \in FirmwareTexts, status \in AllocStatuses :
                   LET r == device_path_to_text_null(fn, pool, units, status)
                   IN  /\ pc' = "done"
                       /\ pool' = r.pool
                       /\ result' = r.result
                       /\ calls' = calls \o r.calls
                       /\ text' = units
                       /\ allocStatus' = status
    /\ fwOut' = 0
    /\ nullDeref' = TRUE
    /\ UNCHANGED <<srcNodes, walkBuf, this, visited, nameLen, imageVars, wildWrite, lenArg, lenOut,
                   fwArgs, useAfterFree, console, serialVars, strVars, locateStatus>>

\* The node or path the firmware's conversion from text hands out.
ParsedPath(fn) ==
    [cells |-> IF fn = "text_to_device_path_node" THEN NodePCI
               ELSE NodePCI \o NodeEndEntire,
     live |-> TRUE, frees |-> 0, owner |-> "pool"]

\* A plausible slip: the encoded text released after the conversion.
KeepEncoded_Freed(p, utf16_str) == free_pool(p, utf16_str)

\* The FIXME of text_to_device_path: utf16_str is not freed.
KeepEncoded(p, utf16_str) == p

\* A plausible slip: the closure run whatever the first step returned.
Result_map_Always(first, then) ==
    [then EXCEPT !.calls = first.calls \o @]

\* Result::map on the outcomes of the encoding and of the closure: the
\* closure runs only on Ok.
Result_map(first, then) ==
    IF first.result.ok
    THEN [then EXCEPT !.calls = first.calls \o @]
    ELSE [pool |-> first.pool, result |-> first.result, calls |-> first.calls,
          args |-> <<>>, out |-> 0]

\* text_to_device_path_node / text_to_device_path: the memory, the result, the
\* firmware calls and the pointers exchanged with the firmware, given the
\* status of allocate_pool and whether the firmware returns a path.
text_to_device_path(fn, p, path, status, parsed) ==
    LET enc == str_to_utf16_ptr(p, path, status)
        utf16_str == enc.result.val
        p1 == IF parsed THEN Append(enc.pool, ParsedPath(fn)) ELSE enc.pool
        out == IF parsed THEN Len(p1) ELSE 0
    IN  Result_map(enc,
                   [pool |-> KeepEncoded(p1, utf16_str),
                    result |-> Ok(out, 0),
                    calls |-> <<fn>>,
                    args |-> <<utf16_str>>, out |-> out])

\* A caller converts a text to a node or a path. Forming &*out from a null out
\* is undefined: the caller gets the null reference, or the build traps.
text_to_device_path_call ==
    /\ pc = "idle"
    /\ \E fn \in FromTextFns, chars \in Texts, status \in AllocStatuses,
          parsed \in BOOLEAN, trapped \in BOOLEAN :
          LET r == text_to_device_path(fn, pool, chars, status, parsed)
          IN  /\ trapped => (r.result.ok /\ r.out = 0)
              /\ op' = fn
              /\ pool' = r.pool
              /\ result' = IF trapped THEN NoResult ELSE r.result
              /\ pc' = IF trapped THEN "fault" ELSE "done"
              /\ calls' = calls \o r.calls
              /\ fwArgs' = r.args
              /\ fwOut' = r.out
              /\ text' = chars
              /\ allocStatus' = status
    /\ UNCHANGED <<srcNodes, walkBuf, this, visited, nameLen, imageVars, wildWrite, lenArg, lenOut,
                   nullDeref, useAfterFree, console, serialVars, strVars, locateStatus>>

\* SimpleTextOutput::write as print_device_path uses it: the text appears on
\* the console.
console_write(con, bytes) == Append(con, bytes)

\* print_device_path_node / print_device_path, from the outcome r of the
\* conversion: the text is written when the conversion succeeded.
print_device_path(con, r) ==
    IF r.result.ok
    THEN [console |-> console_write(con, r.pool[r.result.val].cells),
          result |-> Ok(0, 0),
          calls |-> Append(r.calls, "console.write")]
    ELSE [console |-> con, result |-> r.result, calls |-> r.calls]

\* A caller prints a node or a path; the lookup fails.
print_device_path_locate_fails ==
    /\ pc = "idle"
    /\ \E fn \in PrintFns, lstatus \in LocateFailures :
          /\ op' = fn
          /\ locateStatus' = lstatus
          /\ result' = locate_protocol(lstatus)
    /\ calls' = Append(calls, "locate_protocol")
    /\ pc' = "done"
    /\ UNCHANGED <<pool, srcNodes, walkBuf, this, visited, wildWrite, text,
                   allocStatus, lenArg, lenOut, ext>>

\* A caller prints a node or a path; the firmware returns a text.
print_device_path_call ==
    /\ pc = "idle"
    /\ \E fn \in PrintFns, units \in FirmwareTexts, status \in AllocStatuses :
          LET r == device_path_to_text(ToTextOf(fn), pool, units, status)
              w == print_device_path(console, r)
          IN  /\ op' = fn
              /\ pool' = r.pool
              /\ result' = w.result
              /\ calls' = Append(calls, "locate_protocol") \o w.calls
              /\ console' = w.console
              /\ fwOut' = r.chars
              /\ useAfterFree' = r.readFreed
              /\ text' = units
              /\ allocStatus' = status
    /\ locateStatus' = "Success"
    /\ pc' = "done"
    /\ UNCHANGED <<srcNodes, walkBuf, this, visited, nameLen, imageVars, wildWrite, lenArg, lenOut,
                   fwArgs, nullDeref, serialVars, strVars>>

\* The same call when the firmware returns null: the code reads address 0.
print_device_path_call_null ==
    /\ pc = "idle"
    /\ \E fn \in PrintFns :
          /\ op' = fn
          /\ \/ /\ pc' = "fault"
                /\ calls' = calls \o <<"locate_protocol", ToTextOf(fn)>>
                /\ UNCHANGED <<pool, result, text, allocStatus, console>>
             \/ \E units \in FirmwareTexts, status \in AllocStatuses :
                   LET r == device_path_to_text_null(ToTextOf(fn), pool, units, status)
                       w == print_device_path(console, r)
                   IN  /\ pc' = "done"
                       /\ pool' = r.pool
                       /\ result' = w.result
                       /\ calls' = Append(calls, "locate_protocol") \o w.calls
                       /\ console' = w.console
                       /\ text' = units
                       /\ allocStatus' = status
    /\ locateStatus' = "Success"
    /\ fwOut' = 0
    /\ nullDeref' = TRUE
    /\ UNCHANGED <<srcNodes, walkBuf, this, visited, nameLen, imageVars, wildWrite, lenArg, lenOut,
                   fwArgs, useAfterFree, serialVars, strVars>>

\* ------------------------------------------------------------------------
\* The DevicePathUtilitiesProtocol wrappers called on their own
\* ------------------------------------------------------------------------
UtilitiesFns == {"duplicate_device_path", "append_device_path",
                 "append_device_node", "create_device_node"}

\* The well-formed paths among the inputs.
WellFormedPaths == {nodes \in InputPaths : WellFormed(nodes)}

\* Node lengths asked of create_device_node.
NodeLengths == {4, 6}

\* What the firmware builds for each function from the path nodes, handed in
\* as both arguments where there are two: a copy, the path appended to itself,
\* the path with its first node appended, a fresh node of the given length.
UtilityOutput(fn, nodes, length) ==
    LET front == SubSeq(nodes, 1, Len(nodes) - 1)
    IN  IF fn = "create_device_node"
        THEN CreatedNode(DevicePathTypes_Hardware, HardwareSubTypes_PCI, length)
        ELSE [cells |-> IF fn = "duplicate_device_path" THEN Flatten(nodes)
                        ELSE IF fn = "append_device_path"
                        THEN Flatten(front) \o Flatten(nodes)
                        ELSE Flatten(front) \o nodes[1] \o NodeEndEntire,
              live |-> TRUE, frees |-> 0, owner |-> "pool"]

\* The wrapper of the name fn, applied to the pointer the firmware returned.
UtilityResult(fn, out) ==
    IF fn = "duplicate_device_path" THEN duplicate_device_path(out)
    ELSE IF fn = "append_device_path" THEN append_device_path(out)
    ELSE IF fn = "append_device_node" THEN append_device_node(out)
    ELSE create_device_node(out)

\* A caller invokes one wrapper; the firmware returns a buffer or null.
utilities_call ==
    /\ pc = "idle"
    /\ \E fn \in UtilitiesFns, nodes \in WellFormedPaths, length \in NodeLengths,
          made \in BOOLEAN :
          LET p0 == SourceMemory(nodes)
              p1 == IF made THEN Append(p0, UtilityOutput(fn, nodes, length)) ELSE p0
              out == IF made THEN Len(p1) ELSE 0
          IN  /\ op' = fn
              /\ srcNodes' = nodes
              /\ pool' = p1
              /\ fwOut' = out
              /\ fwArgs' = IF fn = "create_device_node"
                           THEN <<DevicePathTypes_Hardware, HardwareSubTypes_PCI, length>>
                           ELSE IF fn = "duplicate_device_path" THEN <<1>>
                           ELSE <<1, 1>>
              /\ result' = UtilityResult(fn, out)
              /\ calls' = Append(calls, fn)
    /\ pc' = "done"
    /\ UNCHANGED <<walkBuf, this, visited, nameLen, imageVars, wildWrite, text, allocStatus, lenArg,
                   lenOut, nullDeref, useAfterFree, console, serialVars, strVars, locateStatus>>

\* ------------------------------------------------------------------------
\* SerialIOProtocol (src/protocol/serial.rs)
\* ------------------------------------------------------------------------
\* Option<T>: None, and Some(v).
None == <<>>
Some(v) == <<v>>

\* A plausible slip: the argument stored as given, None included.
Option_or_Overwrite(a, b) == a

\* Option::or
Option_or(a, b) == IF a # None THEN a ELSE b

\* Option::unwrap_or
unwrap_or(a, default) == IF a # None THEN a[1] ELSE default

\* The attributes in the order of the code: baud_rate, receive_fifo_depth,
\* timeout, parity, data_bits, stop_bits.  Two settings that differ in each.
SettingsA == <<Some(9600), Some(16), Some(1000), Some(1), Some(7), Some(1)>>
SettingsB == <<Some(115200), Some(64), Some(5000), Some(2), Some(8), Some(3)>>
NoSettings == [i \in 1..6 |-> None]

\* One attribute of a setting, None for the others.
Only(settings, i) == [j \in 1..6 |-> IF j = i THEN settings[j] ELSE None]

\* The arguments given to update_attributes: nothing, each attribute alone,
\* all of them at other values.
AttributeSamples ==
    {NoSettings, SettingsB} \cup {Only(SettingsA, i) : i \in 1..6}

\* Statuses the firmware's SetAttributes, Write and Reset return here.
DeviceStatuses == {"Success", "DeviceError"}
\* Statuses the firmware's Read returns here.
ReadStatuses == {"Success", "Timeout", "DeviceError"}

\* Calls made on one SerialIOProtocol, at most.
MaxSerialCalls == 3
\* Bytes asked of one write or read, at most.
MaxTransfer == 2

\* RawSerialIOProtocol::set_attributes: what the firmware is given, a None
\* replaced by 0 (DefaultParity, DefaultStopBits).
RawAttributes(attrs) == [i \in 1..6 |-> unwrap_or(attrs[i], 0)]

\* SerialIOProtocol::set_attributes, from the status of the firmware.
set_attributes(p, status) ==
    [pool |-> p,
     result |-> IF status = "Success" THEN Ok(0, 0) ELSE Err(status),
     calls |-> <<"set_attributes">>]

\* A plausible slip: the transfer made whatever set_attributes returned.
and_then_Always(first, then) ==
    [then EXCEPT !.calls = first.calls \o @]

\* Result::and_then on the outcomes [pool, result, calls] of two steps.
and_then(first, then) ==
    IF first.result.ok THEN [then EXCEPT !.calls = first.calls \o @] ELSE first

\* RawSerialIOProtocol::write: the firmware reports written bytes or fails.
write_raw(p, written, status) ==
    [pool |-> p,
     result |-> IF status = "Success" THEN Ok(written, 0) ELSE Err(status),
     calls |-> <<"write">>]

\* RawSerialIOProtocol::read_bytes: the buffer is allocated, the firmware
\* stores got bytes in it and returns status; Ok(0, 0) stands for Ok(None).
read_bytes(p, length, astatus, status, got) ==
    IF astatus # "Success"
    THEN [pool |-> p, result |-> Err(astatus), calls |-> <<"allocate_pool">>]
    ELSE
      LET p1 == allocate_pool(p, length)
          buf_ptr == Len(p1)
          filled == [p1 EXCEPT ![buf_ptr].cells =
                       [i \in 1..length |-> IF i <= got THEN 64 + i ELSE Uninit]]
      IN  IF status = "Success"
          THEN [pool |-> filled, result |-> Ok(buf_ptr, got),
                calls |-> <<"allocate_pool", "read">>]
          ELSE IF status = "Timeout"
          THEN [pool |-> filled, result |-> Ok(0, 0),
                calls |-> <<"allocate_pool", "read">>]
          ELSE [pool |-> free_pool(filled, buf_ptr), result |-> Err(status),
                calls |-> <<"allocate_pool", "read", "free_pool">>]

\* SerialIOProtocol::new: the lookup, the reset, then an object with nothing
\* cached.
serial_new ==
    /\ pc = "idle"
    /\ \E lstatus \in LocateStatuses, rstatus \in DeviceStatuses :
          /\ locateStatus' = lstatus
          /\ IF ~locate_protocol(lstatus).ok
             THEN /\ result' = locate_protocol(lstatus)
                  /\ calls' = <<"locate_protocol">>
                  /\ pc' = "done"
                  /\ UNCHANGED serial
             ELSE IF rstatus # "Success"
             THEN /\ result' = Err(rstatus)
                  /\ calls' = <<"locate_protocol", "reset">>
                  /\ pc' = "done"
                  /\ UNCHANGED serial
             ELSE /\ result' = Ok(0, 0)
                  /\ calls' = <<"locate_protocol", "reset">>
                  /\ pc' = "serial"
                  /\ serial' = NoSettings
    /\ op' = "SerialIOProtocol::new"
    /\ UNCHANGED <<pool, srcNodes, walkBuf, this, visited, nameLen, imageVars, wildWrite, text,
                   allocStatus, lenArg, lenOut, fwOut, fwArgs, nullDeref,
                   useAfterFree, console, attrHistory, serialCalls, setStatus,
                   strVars>>

\* What a call on the SerialIOProtocol leaves alone.
SerialFrame ==
    /\ pc' = "serial"
    /\ serialCalls' = serialCalls + 1
    /\ UNCHANGED <<srcNodes, walkBuf, this, visited, nameLen, imageVars, wildWrite, text, lenArg,
                   lenOut, fwOut, nullDeref, useAfterFree, console, strVars,
                   locateStatus>>

\* SerialIOProtocol::update_attributes
serial_update_attributes ==
    /\ pc = "serial"
    /\ serialCalls < MaxSerialCalls
    /\ \E args \in AttributeSamples, status \in DeviceStatuses :
          LET cached == [i \in 1..6 |-> Option_or(args[i], serial[i])]
              r == set_attributes(pool, status)
          IN  /\ serial' = cached
              /\ fwArgs' = RawAttributes(cached)
              /\ setStatus' = status
              /\ result' = r.result
              /\ calls' = r.calls
              /\ attrHistory' = Append(attrHistory, args)
    /\ op' = "update_attributes"
    /\ UNCHANGED <<pool, allocStatus>>
    /\ SerialFrame

\* SerialIOProtocol::write
serial_write ==
    /\ pc = "serial"
    /\ serialCalls < MaxSerialCalls
    /\ \E status \in DeviceStatuses, wstatus \in DeviceStatuses,
          length \in 0..MaxTransfer :
          \E written \in 0..length :
             LET r == and_then(set_attributes(pool, status),
                               write_raw(pool, written, wstatus))
             IN  /\ fwArgs' = RawAttributes(serial)
                 /\ setStatus' = status
                 /\ result' = r.result
                 /\ calls' = r.calls
    /\ op' = "write"
    /\ UNCHANGED <<pool, allocStatus, serial, attrHistory>>
    /\ SerialFrame

\* SerialIOProtocol::read_bytes
serial_read_bytes ==
    /\ pc = "serial"
    /\ serialCalls < MaxSerialCalls
    /\ \E status \in DeviceStatuses, astatus \in AllocStatuses,
          rstatus \in ReadStatuses, length \in 1..MaxTransfer :
          \E got \in 0..length :
             LET r == and_then(set_attributes(pool, status),
                               read_bytes(pool, length, astatus, rstatus, got))
             IN  /\ fwArgs' = RawAttributes(serial)
                 /\ setStatus' = status
                 /\ pool' = r.pool
                 /\ result' = r.result
                 /\ calls' = r.calls
                 /\ allocStatus' = IF status = "Success" THEN astatus ELSE allocStatus
    /\ op' = "read_bytes"
    /\ UNCHANGED <<serial, attrHistory>>
    /\ SerialFrame

\* ------------------------------------------------------------------------
\* Status (src/base.rs)
\* ------------------------------------------------------------------------
\* The variants of Status.
Status ==
    {"Success", "LoadError", "InvalidParameter", "Unsupported",
     "BadBufferSize", "BufferTooSmall", "NotReady", "DeviceError",
     "WriteProtected", "OutOfResources", "VolumeCorrupted", "VolumeFull",
     "NoMedia", "MediaChanged", "NotFound", "AccessDenied",
     "NoResponse", "NoMapping", "Timeout", "NotStarted",
     "AlreadyStarted", "Aborted", "IcmpError", "TftpError",
     "ProtocolError", "IncompatibleVersion", "SecurityViolation", "CrcError",
     "EndOfMedia", "EndOfFile"}

\* The arms of the match in Status::str.
StatusDescriptions ==
    [Success |-> "success",
     LoadError |-> "load error",
     InvalidParameter |-> "invalid parameter",
     Unsupported |-> "unsupported",
     BadBufferSize |-> "bad buffer size",
     BufferTooSmall |-> "buffer too small",
     NotReady |-> "not ready",
     DeviceError |-> "device error",
     WriteProtected |-> "write protected",
     OutOfResources |-> "out of resources",
     VolumeCorrupted |-> "volume corrupted",
     VolumeFull |-> "volume full",
     NoMedia |-> "no media",
     MediaChanged |-> "media changed",
     NotFound |-> "not found",
     AccessDenied |-> "access denied",
     NoResponse |-> "no response",
     NoMapping |-> "no mapping",
     Timeout |-> "timeout",
     NotStarted |-> "not started",
     AlreadyStarted |-> "already started",
     Aborted |-> "aborted",
     IcmpError |-> "ICMP error",
     TftpError |-> "TFTP error",
     ProtocolError |-> "protocol error",
     IncompatibleVersion |-> "incompatible version",
     SecurityViolation |-> "security violation",
     CrcError |-> "CRC error",
     EndOfMedia |-> "end of media",
     EndOfFile |-> "end of file"]

\* A plausible slip: an arm copied without changing its text.
Status_str_Shared(s) ==
    IF s = "EndOfFile" THEN StatusDescriptions["EndOfMedia"]
    ELSE StatusDescriptions[s]

\* Status::str
Status_str(s) == StatusDescriptions[s]

\* Display::fmt for Status: write!(f, "{}", self.str())
Display_fmt(s) == Status_str(s)

\* A caller asks for the description of a status and prints the status.
status_str_call ==
    /\ pc = "idle"
    /\ \E s \in Status :
          /\ statusArg' = s
          /\ strOut' = [str |-> Status_str(s), display |-> Display_fmt(s)]
    /\ pc' = "done"
    /\ op' = "Status::str"
    /\ UNCHANGED <<pool, calls, result, srcNodes, walkBuf, this, visited, nameLen, imageVars,
                   wildWrite, text, allocStatus, lenArg, lenOut, fwOut, fwArgs,
                   nullDeref, useAfterFree, console, serialVars, locateStatus>>

\* ------------------------------------------------------------------------
\* The current image (src/protocol/mod.rs)
\* ------------------------------------------------------------------------
\* Image handles given to set_current_image.
Handles == {1, 2}

\* Statuses the firmware's HandleProtocol returns here.
HandleStatuses == {"Success", "Unsupported", "InvalidParameter"}

\* Calls made on the current image, at most.
MaxImageCalls == 3

\* The LoadedImageProtocol interface the firmware keeps for a handle.
InterfaceOf(handle) == 100 + handle

\* BootServices::handle_protocol: its result, from the status and the
\* interface the firmware returned.
handle_protocol(status, interface) ==
    IF status # "Success" THEN Err(status) ELSE Ok(interface, 0)

\* A plausible slip: the static written whatever the lookup returned.
StoreImage_Always(current, loaded_image_proto) == loaded_image_proto.val

\* if let Ok(image) = loaded_image_proto { THIS_LOADED_IMAGE = image; }
StoreImage(current, loaded_image_proto) ==
    IF loaded_image_proto.ok THEN loaded_image_proto.val ELSE current

\* What a call on the current image leaves alone.
ImageFrame ==
    UNCHANGED <<pool, srcNodes, walkBuf, this, visited, wildWrite, text,
               allocStatus, lenArg, lenOut, fwOut, fwArgs, useAfterFree,
               console, serialVars, strVars, locateStatus, nameLen>>

\* set_current_image(handle)
set_current_image ==
    /\ pc \in {"idle", "image"}
    /\ Len(imageHistory) < MaxImageCalls
    /\ \E handle \in Handles, status \in HandleStatuses :
          LET loaded_image_proto == handle_protocol(status, InterfaceOf(handle))
          IN  /\ THIS_LOADED_IMAGE' = StoreImage(THIS_LOADED_IMAGE, loaded_image_proto)
              /\ result' = loaded_image_proto
              /\ imageHistory' = Append(imageHistory,
                                        [fn |-> "set_current_image", handle |-> handle,
                                         status |-> status])
    /\ calls' = <<"handle_protocol">>
    /\ op' = "set_current_image"
    /\ pc' = "image"
    /\ UNCHANGED nullDeref
    /\ ImageFrame

\* get_current_image(): &*THIS_LOADED_IMAGE.  While no image was set the
\* static is null and forming the reference is undefined: the caller gets the
\* null reference, or the build traps.
get_current_image ==
    /\ pc \in {"idle", "image"}
    /\ Len(imageHistory) < MaxImageCalls
    /\ \E trapped \in BOOLEAN :
          /\ trapped => THIS_LOADED_IMAGE = 0
          /\ pc' = IF trapped THEN "fault" ELSE "image"
          /\ result' = IF trapped THEN NoResult ELSE Ok(THIS_LOADED_IMAGE, 0)
    /\ nullDeref' = (nullDeref \/ THIS_LOADED_IMAGE = 0)
    /\ imageHistory' = Append(imageHistory,
                              [fn |-> "get_current_image", handle |-> 0,
                               status |-> "Success"])
    /\ calls' = <<>>
    /\ op' = "get_current_image"
    /\ UNCHANGED THIS_LOADED_IMAGE
    /\ ImageFrame

\* ------------------------------------------------------------------------
\* The state after construction, and the specification
\* ------------------------------------------------------------------------
Init ==
    /\ pc = "idle"
    /\ op = "none"
    /\ pool = <<>>
    /\ calls = <<>>
    /\ result = NoResult
    /\ srcNodes = <<>>
    /\ walkBuf = 0
    /\ this = 0
    /\ visited = <<>>
    /\ wildWrite = FALSE
    /\ text = <<>>
    /\ allocStatus = "none"
    /\ lenArg = <<0, 0>>
    /\ lenOut = 0
    /\ fwOut = 0
    /\ fwArgs = <<>>
    /\ nullDeref = FALSE
    /\ useAfterFree = FALSE
    /\ console = <<>>
    /\ serial = <<>>
    /\ attrHistory = <<>>
    /\ serialCalls = 0
    /\ setStatus = "none"
    /\ statusArg = "none"
    /\ strOut = [str |-> "", display |-> ""]
    /\ locateStatus = "none"
    /\ nameLen = 0
    /\ THIS_LOADED_IMAGE = 0
    /\ imageHistory = <<>>

Next ==
    \/ parent_device_path_reject
    \/ parent_device_path_locate_fails
    \/ parent_device_path_duplicate_fails
    \/ parent_device_path_duplicate
    \/ parent_device_path_loop
    \/ parent_device_path_loop_wild
    \/ walk_begin
    \/ walk_step
    \/ walk_wild
    \/ len_call
    \/ str_to_utf16_ptr_call
    \/ utf16_ptr_to_str_of_encoded
    \/ utf16_ptr_to_str_call
    \/ create_file_device_node_call
    \/ device_path_to_text_call
    \/ device_path_to_text_call_null
    \/ text_to_device_path_call
    \/ print_device_path_locate_fails
    \/ print_device_path_call
    \/ print_device_path_call_null
    \/ utilities_call
    \/ serial_new
    \/ serial_update_attributes
    \/ serial_write
    \/ serial_read_bytes
    \/ status_str_call
    \/ create_file_device_node_long
    \/ set_current_image
    \/ get_current_image

Spec == Init /\ [][Next]_vars

\* The loops of the code run on: an iteration that can be taken is taken.
FairSpec ==
    Spec /\ WF_vars(walk_step) /\ WF_vars(parent_device_path_loop)

\* ------------------------------------------------------------------------
\* Properties
\* ------------------------------------------------------------------------
SourceBytes == Flatten(srcNodes)

\* A well-formed path with no End node before its terminator.
SingleInstance(nodes) ==
    /\ WellFormed(nodes)
    /\ \A i \in 1..(Len(nodes) - 1) : ~IsEndNode(nodes[i])

PdpDone == pc = "done" /\ op = "parent_device_path"

\* C1: for a well-formed single-instance path of k >= 2 real nodes and a
\* terminator, the chain parent_device_path returns holds the first k-1 nodes
\* of the input unchanged, directly followed by End/EndEntirePath with length
\* bytes [4, 0]; and the call does return it once the duplicate was made.
C1_ParentOfSingleInstance ==
    (PdpDone /\ Len(pool) = 2 /\ SingleInstance(srcNodes) /\ Len(srcNodes) >= 3)
    => /\ result = Ok(2, 0)
       /\ LET k == Len(srcNodes) - 1
              p == OffsetOf(srcNodes, k)
              out == pool[result.val].cells
          IN  /\ SubSeq(out, 1, p) = SubSeq(SourceBytes, 1, p)
              /\ SubSeq(out, p + 1, p + 4) =
                    <<DevicePathTypes_End, EndPathSubTypes_EndEntirePath, 4, 0>>

\* C1 witness: a three-node path whose second node has a payload was truncated.
C1_Witness ==
    /\ PdpDone
    /\ result.ok
    /\ srcNodes = <<NodePCI, NodeFile, NodePCI, NodeEndEntire>>

\* C2: on a path whose first node has type End, parent_device_path returns
\* Err(InvalidParameter) and has called no firmware function and changed no
\* memory: no lookup, no duplicate, no allocation.
C2_EndFirstRejected ==
    (op = "parent_device_path" /\ IsEndNode(srcNodes[1]))
    => /\ pc = "done"
       /\ result = Err("InvalidParameter")
       /\ calls = <<>>
       /\ pool = SourceMemory(srcNodes)

\* C2 witness: a path that starts with End/EndInstance was rejected.
C2_Witness ==
    /\ PdpDone
    /\ Len(srcNodes) >= 2
    /\ srcNodes[1] = NodeEndInstance
    /\ result.status = "InvalidParameter"

\* The chain that starts at the head of a buffer: its bytes up to and
\* including the first End/EndEntirePath node.
RECURSIVE ChainEnd(_, _)
ChainEnd(cells, off) ==
    IF cells[off + 1] = DevicePathTypes_End
       /\ cells[off + 2] = EndPathSubTypes_EndEntirePath
    THEN off + 4
    ELSE ChainEnd(cells, off + cells[off + 3] + 256 * cells[off + 4])

ChainOf(cells) == SubSeq(cells, 1, ChainEnd(cells, 0))

\* The path without its i-th node.
Without(nodes, i) == SubSeq(nodes, 1, i - 1) \o SubSeq(nodes, i + 1, Len(nodes))

\* C3 (as claimed): for every well-formed path that parent_device_path
\* accepts, multi-instance paths included, the returned chain is the input
\* without its final real node, all earlier nodes and instances kept.  Stated
\* for the paths whose final real node stands directly before the terminator.
C3_StripsFinalRealNode ==
    (PdpDone /\ result.ok /\ WellFormed(srcNodes)
       /\ ~IsEndNode(srcNodes[Len(srcNodes) - 1]))
    => ChainOf(pool[result.val].cells) =
          Flatten(Without(srcNodes, Len(srcNodes) - 1))

VisitedInOrder ==
    \A i \in 1..Len(visited) :
        /\ i <= Len(srcNodes)
        /\ visited[i] = OffsetOf(srcNodes, i)

C5_WalkSafe ==
    WellFormed(srcNodes) =>
       /\ op = "walk" =>
            /\ pc \in {"walk", "done"}
            /\ VisitedInOrder
            /\ this = visited[Len(visited)]
            /\ pc = "done" =>
                 /\ Len(visited) = Len(srcNodes)
                 /\ result = Ok(1, OffsetOf(srcNodes, Len(srcNodes)))
       /\ (op = "parent_device_path" /\ Len(pool) = 2) =>
            /\ pc \in {"pdp_loop", "done"}
            /\ VisitedInOrder
            /\ Len(visited) < Len(srcNodes)
            /\ this = visited[Len(visited)]

\* C5: a walk from the head of a well-formed path terminates; it visits the
\* nodes once each, in order, ends on the End/EndEntirePath node and reads no
\* header beyond it.  The loop of parent_device_path on such a path also
\* terminates and stays before the terminator.
C5_WalkTerminates ==
    /\ []C5_WalkSafe
    /\ (pc \in {"walk", "pdp_loop"} /\ WellFormed(srcNodes)) ~> (pc = "done")

\* C5 witness: a walk over a multi-instance path with a payload has ended on
\* the terminator.
C5_Witness ==
    /\ pc = "done"
    /\ op = "walk"
    /\ srcNodes = <<NodeFile, NodeEndInstance, NodePCI, NodeEndEntire>>
    /\ visited = <<0, 6, 10, 14>>

\* C6 (as claimed): a node whose length is less than 4 is not followed: two
\* nodes visited one after the other are at least 4 bytes apart, so the loop
\* neither stays on a node nor steps into the middle of a header.
C6_ShortLengthRejected ==
    \A i \in 1..(Len(visited) - 1) :
        visited[i + 1] # Wild => visited[i + 1] - visited[i] >= 4

\* C7: len() returns b0 + 256 * b1 for the length bytes [b0, b1], so a length
\* stored low byte first is read back unchanged; the bytes [4, 0] that
\* parent_device_path writes into the new terminator are read back as 4.
C7_LenLittleEndian ==
    /\ op = "len" =>
          /\ lenOut = lenArg[1] + 256 * lenArg[2]
          /\ <<lenOut % 256, lenOut \div 256>> = lenArg
    /\ (PdpDone /\ result.ok /\ ~wildWrite) =>
          /\ HeaderAt(pool[2].cells, this).length = <<4, 0>>
          /\ len(HeaderAt(pool[2].cells, this)) = 4

\* C7 witness: the length bytes [44, 1] were decoded to 300.
C7_Witness ==
    /\ op = "len"
    /\ lenArg = <<44, 1>>
    /\ lenOut = 300

IsAsciiText(chars) == \A i \in 1..Len(chars) : chars[i] > 0 /\ chars[i] < 128

\* C8: for an ASCII text without NUL, decoding the buffer that encoding it
\* produced succeeds (when allocation does) and gives a text of the same length
\* with the same characters.
C8_AsciiRoundTrip ==
    (op = "round_trip" /\ allocStatus = "Success" /\ IsAsciiText(text))
    => /\ result.ok
       /\ result.len = Len(text)
       /\ pool[result.val].cells = text
       /\ pool[result.val].live

\* C8 witness: a three-character text went through encode and decode.
C8_Witness ==
    /\ op = "round_trip"
    /\ text = <<65, 127, 65>>
    /\ result.ok

\* C9: utf16_ptr_to_str on a null-terminated buffer with a unit >= 128 returns
\* Err(InvalidParameter) and no text, and has freed the buffer it allocated
\* once; when allocate_pool fails the call returns that status and frees nothing.
C9_DecodeRejectsNonAscii ==
    (op = "utf16_ptr_to_str")
    => /\ (allocStatus = "Success" /\ \E i \in 1..Len(text) : text[i] >= 128) =>
            /\ result = Err("InvalidParameter")
            /\ Len(pool) = 2
            /\ pool[2].owner = "pool"
            /\ pool[2].frees = 1
            /\ ~pool[2].live
            /\ pool[1] = FirmwareBuffer(Append(text, 0))
       /\ allocStatus # "Success" =>
            /\ result = Err(allocStatus)
            /\ pool = <<FirmwareBuffer(Append(text, 0))>>
            /\ calls = <<"allocate_pool">>

\* C9 witness: the second unit of the buffer was not ASCII.
C9_Witness ==
    /\ op = "utf16_ptr_to_str"
    /\ text = <<65, 233>>
    /\ result.status = "InvalidParameter"

\* Buffers of the pool that are allocated.
LiveBuffers == {b \in 1..Len(pool) : pool[b].live}

\* C10: str_to_utf16_ptr on a text with a character of more than one UTF-8 byte
\* returns Err(Unsupported) and has freed the buffer it allocated once, so the
\* allocated buffers are those of before the call (none).
C10_EncodeRejectsWide ==
    (op = "str_to_utf16_ptr" /\ allocStatus = "Success"
       /\ \E i \in 1..Len(text) : text[i] >= 128)
    => /\ result = Err("Unsupported")
       /\ Len(pool) = 1
       /\ pool[1].frees = 1
       /\ LiveBuffers = {}

\* C10 witness: the second character of the text needs two bytes.
C10_Witness ==
    /\ op = "str_to_utf16_ptr"
    /\ text = <<65, 233>>
    /\ result.status = "Unsupported"

\* The node of a successful create_file_device_node, as bytes.
CreatedFileNode == pool[result.val].cells

C16_FailureLeavesNothing ==
    (/\ op = "create_file_device_node" /\ pc = "done" /\ ~result.ok
     /\ locateStatus # "none")
    => LiveBuffers = {}

\* The firmware's conversion was invoked during the call.
ConversionInvoked ==
    \E i \in 1..Len(calls) : calls[i] \in ToTextFns \cup FromTextFns

\* C12: in device_path_node_to_text and device_path_to_text (also when the
\* print functions call them) the text buffer the firmware returned is
\* released exactly once, whether the decode succeeds or fails, and the decode
\* never reads it after the release.
C12_TextReleasedOnce ==
    (pc = "done" /\ op \in ToTextFns \cup PrintFns /\ fwOut # 0)
    => /\ pool[fwOut].frees = 1
       /\ ~pool[fwOut].live
       /\ ~useAfterFree
       /\ calls[Len(calls)] \in {"free_pool", "console.write"}

C12_Witness ==
    /\ pc = "done" /\ op = "device_path_to_text" /\ fwOut # 0
    /\ ~result.ok /\ result.status = "InvalidParameter"
    /\ pool[fwOut].frees = 1

\* Live pool buffers that the result of the call does not hand to the caller.
Orphans ==
    {b \in LiveBuffers : pool[b].owner = "pool" /\ ~(result.ok /\ result.val = b)}

\* C13: after a successful text_to_device_path_node or text_to_device_path
\* the buffer encoded from the input text is still allocated and was never
\* freed: the call leaves exactly one more live pool buffer that nobody owns.
C13_EncodedTextLeaks ==
    (pc = "done" /\ op \in FromTextFns /\ result.ok)
    => /\ fwArgs # <<>>
       /\ pool[fwArgs[1]].live
       /\ pool[fwArgs[1]].frees = 0
       /\ pool[fwArgs[1]].cells = Append(text, 0)
       /\ Orphans = {fwArgs[1]}

C13_Witness ==
    /\ pc = "done" /\ op = "text_to_device_path" /\ result.ok
    /\ result.val # 0 /\ Len(text) >= 1
    /\ pool[fwArgs[1]].live

\* C14: when the firmware's text conversion returns null, the four wrappers
\* return an error and never read through or hand out the null pointer.
C14_NullSurfacesAsError ==
    (/\ pc \in {"done", "fault"} /\ op \in ToTextFns \cup FromTextFns
     /\ ConversionInvoked /\ fwOut = 0)
    => (pc = "done" /\ ~result.ok /\ ~nullDeref)

\* C17: when locate_protocol fails, parent_device_path,
\* create_file_device_node, print_device_path_node and print_device_path
\* return the status of the lookup and do nothing after it: no duplicate, no
\* node, no conversion, nothing on the console.
C17_LookupFailureStops ==
    (/\ pc = "done" /\ locateStatus \in LocateFailures
     /\ op \in {"parent_device_path", "create_file_device_node"} \cup PrintFns)
    => /\ result = Err(locateStatus)
       /\ calls[Len(calls)] = "locate_protocol"
       /\ \A i \in 1..Len(calls) :
             calls[i] \notin {"duplicate_device_path", "create_device_node",
                              "console.write"} \cup ToTextFns
       /\ console = <<>> /\ fwArgs = <<>> /\ fwOut = 0
       /\ op = "parent_device_path" => pool = SourceMemory(srcNodes)
       /\ op \in PrintFns => pool = <<>>

C17_Witness ==
    /\ pc = "done" /\ op = "print_device_path"
    /\ locateStatus = "InvalidParameter"
    /\ result = Err("InvalidParameter")

\* C15: each DevicePathUtilities wrapper invokes its firmware function exactly
\* once; a null result becomes OutOfResources for duplicate_device_path,
\* append_device_path and append_device_node and InvalidParameter for
\* create_device_node; any other result is returned as Ok with that pointer.
C15_NullMapsToFixedError ==
    (pc = "done" /\ op \in UtilitiesFns)
    => /\ calls = <<op>>
       /\ fwOut = 0 =>
             result = Err(IF op = "create_device_node" THEN "InvalidParameter"
                          ELSE "OutOfResources")
       /\ fwOut # 0 => result = Ok(fwOut, 0)

C15_Witness ==
    /\ pc = "done" /\ op = "create_device_node" /\ calls = <<"create_device_node">>
    /\ fwOut = 0 /\ result = Err("InvalidParameter")

\* The calls of update_attributes that gave a value for attribute i.
GaveSome(i) == {k \in 1..Len(attrHistory) : attrHistory[k][i] # <<>>}

\* The value most recently given for attribute i, None if none ever was.
MostRecentSome(i) ==
    IF GaveSome(i) = {} THEN <<>>
    ELSE attrHistory[CHOOSE k \in GaveSome(i) : \A j \in GaveSome(i) : j <= k][i]

\* C18: after any sequence of calls on a SerialIOProtocol made by new(), each
\* of the six cached attributes is the value most recently given as Some to
\* update_attributes, or None if none was given; a None argument resets
\* nothing; and the firmware's SetAttributes receives these cached values (0
\* standing for an attribute still None).
C18_AttributesIncremental ==
    pc = "serial"
    => /\ \A i \in 1..6 : serial[i] = MostRecentSome(i)
       /\ serialCalls > 0 =>
             fwArgs = [i \in 1..6 |->
                          IF MostRecentSome(i) = <<>> THEN 0
                          ELSE MostRecentSome(i)[1]]

C18_Witness ==
    /\ pc = "serial" /\ op = "update_attributes" /\ Len(attrHistory) >= 2
    /\ attrHistory[1][1] = <<115200>>
    /\ attrHistory[2][1] = <<>> /\ attrHistory[2][2] = <<16>>
    /\ serial[1] = <<115200>> /\ serial[2] = <<16>>
    /\ fwArgs[1] = 115200 /\ fwArgs[2] = 16

\* The firmware calls of a transfer: the write, the read and the allocation
\* of the read buffer.
TransferCalls == {"write", "read", "allocate_pool", "free_pool"}

\* C19: every write and read_bytes of a SerialIOProtocol calls SetAttributes
\* first; the firmware's write or read (and the allocation of the read buffer)
\* happens only after SetAttributes returned Success in the same call; when
\* SetAttributes fails, its status is returned and nothing else is called.
C19_AttributesBeforeTransfer ==
    (pc = "serial" /\ op \in {"write", "read_bytes"})
    => /\ calls # <<>> /\ calls[1] = "set_attributes"
       /\ \A i \in 1..Len(calls) :
             calls[i] \in TransferCalls => (i > 1 /\ setStatus = "Success")
       /\ setStatus # "Success" =>
             (result = Err(setStatus) /\ calls = <<"set_attributes">>)
       /\ setStatus = "Success" => Len(calls) >= 2

C19_Witness ==
    /\ pc = "serial" /\ op = "read_bytes" /\ setStatus = "DeviceError"
    /\ result = Err("DeviceError") /\ calls = <<"set_attributes">>

\* C20: Status::str gives every variant of Status a description, no two
\* variants the same one, Success the description "success"; and Display
\* prints the description.
C20_StatusStrInjective ==
    (pc = "done" /\ op = "Status::str")
    => /\ statusArg \in Status
       /\ strOut.str # ""
       /\ \A t \in Status : Status_str(t) = strOut.str => t = statusArg
       /\ statusArg = "Success" => strOut.str = "success"
       /\ strOut.display = strOut.str

C20_Witness ==
    /\ pc = "done" /\ op = "Status::str" /\ statusArg = "EndOfMedia"
    /\ strOut.str = "end of media" /\ strOut.display = "end of media"

\* How often the firmware function f was invoked during the call.
TimesCalled(f) == Cardinality({i \in 1..Len(calls) : calls[i] = f})

\* The encoding of the input text succeeds: the allocation succeeds and every
\* character takes one byte.
Encodable ==
    /\ allocStatus = "Success"
    /\ \A i \in 1..Len(text) : len_utf8(text[i]) = 1

\* C21: text_to_device_path_node and text_to_device_path encode first and
\* convert second.  When the encoding fails its error is returned, the
\* firmware's conversion is not invoked and no buffer stays allocated; when it
\* succeeds the conversion is invoked exactly once, after the allocation, with
\* the encoded buffer.
C21_EncodeThenConvert ==
    (pc \in {"done", "fault"} /\ op \in FromTextFns)
    => /\ ~Encodable =>
             /\ pc = "done"
             /\ result = Err(IF allocStatus # "Success" THEN allocStatus
                             ELSE "Unsupported")
             /\ TimesCalled(op) = 0
             /\ fwArgs = <<>>
             /\ LiveBuffers = {}
       /\ Encodable =>
             /\ TimesCalled(op) = 1
             /\ calls = <<"allocate_pool", op>>
             /\ Len(fwArgs) = 1
             /\ pool[fwArgs[1]].cells = Append(text, 0)

C21_Witness ==
    /\ pc = "done" /\ op = "text_to_device_path_node"
    /\ allocStatus = "Success" /\ Len(text) >= 2
    /\ len_utf8(text[1]) = 1 /\ len_utf8(text[2]) > 1
    /\ result = Err("Unsupported") /\ pool # <<>> /\ LiveBuffers = {}

\* Every character of the text is below 128 (NUL included).
IsAsciiRange(chars) == \A i \in 1..Len(chars) : chars[i] < 128

\* C22: for every ASCII text of n characters whose allocation succeeds,
\* str_to_utf16_ptr asks for n + 1 units and touches no other memory; unit i
\* (from 0) holds the i-th character for i < n and unit n holds 0, so
\* utf16_strlen of the result is n when the text has no NUL in it.
C22_EncodedLayout ==
    (/\ pc = "done" /\ op = "str_to_utf16_ptr" /\ allocStatus = "Success"
     /\ IsAsciiRange(text))
    => LET n == Len(text)
       IN  /\ result.ok
           /\ calls = <<"allocate_pool">>
           /\ Len(pool) = 1 /\ result.val = 1
           /\ pool[1].live /\ pool[1].frees = 0
           /\ Len(pool[1].cells) = n + 1
           /\ \A i \in 1..n : pool[1].cells[i] = text[i]
           /\ pool[1].cells[n + 1] = 0
           /\ IsAsciiText(text) => utf16_strlen(pool[1].cells) = n

C22_Witness ==
    /\ pc = "done" /\ op = "str_to_utf16_ptr" /\ result.ok
    /\ IsAsciiText(text) /\ Len(text) >= 2 /\ text[1] # text[2]
    /\ Len(pool[1].cells) = Len(text) + 1
    /\ utf16_strlen(pool[1].cells) = Len(text)

\* A well-formed path of one real node and nothing but End nodes after it.
OneRealNode(nodes) ==
    /\ WellFormed(nodes)
    /\ Len(nodes) >= 2
    /\ ~IsEndNode(nodes[1])
    /\ \A i \in 2..Len(nodes) : IsEndNode(nodes[i])

\* C23: parent_device_path accepts a well-formed path of exactly one real node
\* followed by an End node: it is not rejected up front, the loop neither
\* faults nor leaves the buffer, and once the duplicate was made the call
\* returns it with the first node rewritten to End/EndEntirePath, length
\* bytes [4, 0], every other byte as in the source: a chain of no real node.
C23_OneNodeParentIsEmpty ==
    (op = "parent_device_path" /\ OneRealNode(srcNodes))
    => /\ pc # "fault" /\ ~wildWrite
       /\ pc = "done" =>
             /\ calls # <<>>
             /\ Len(pool) = 2 =>
                   LET out == pool[2].cells
                   IN  /\ result = Ok(2, 0)
                       /\ SubSeq(out, 1, 4) =
                             <<DevicePathTypes_End, EndPathSubTypes_EndEntirePath, 4, 0>>
                       /\ SubSeq(out, 5, Len(out)) =
                             SubSeq(SourceBytes, 5, Len(SourceBytes))
                       /\ ChainOf(out) = NodeEndEntire
                       /\ pool[1].cells = SourceBytes

C23_Witness ==
    /\ PdpDone /\ result.ok
    /\ srcNodes = <<NodeFile, NodeEndEntire>>
    /\ ChainOf(pool[2].cells) = NodeEndEntire

\* C24: for every file name length n, the node length create_file_device_node
\* hands to create_device_node, 4 + (n + 1) * 2 narrowed to 16 bits, is at
\* least 4 + (n + 1) * 2, and no store of the n + 1 units falls outside the
\* node.
C24_NarrowedLengthCovers ==
    (/\ pc = "done" /\ result.ok
     /\ \/ op = "create_file_device_node_long"
        \/ op = "create_file_device_node" /\ IsAsciiText(text))
    => LET n == IF op = "create_file_device_node" THEN Len(text) ELSE nameLen
       IN  /\ fwArgs[3] >= 4 + (n + 1) * 2
           /\ ~wildWrite

\* C25: every buffer RawSerialIOProtocol::read_bytes allocates is, when the
\* call returns, either the slice handed to the caller or freed, also when
\* the read ends in an error or in a Timeout.
C25_ReadBufferOwnedOrFreed ==
    (/\ pc = "serial" /\ op = "read_bytes"
     /\ setStatus = "Success" /\ allocStatus = "Success")
    => LET buf_ptr == Len(pool)
       IN  \/ result.ok /\ result.val = buf_ptr /\ pool[buf_ptr].live
           \/ ~pool[buf_ptr].live /\ pool[buf_ptr].frees = 1

\* The calls of set_current_image whose lookup succeeded.
ImagesSet ==
    {k \in 1..Len(imageHistory) :
        /\ imageHistory[k].fn = "set_current_image"
        /\ imageHistory[k].status = "Success"}

\* The interface of the most recent successful set_current_image, null if
\* there was none.
MostRecentImage ==
    IF ImagesSet = {} THEN 0
    ELSE 100 + imageHistory[CHOOSE k \in ImagesSet : \A j \in ImagesSet : j <= k].handle

\* C26: after any sequence of set_current_image and get_current_image calls
\* the current image is the interface of the most recent set_current_image
\* whose lookup succeeded; a call whose lookup fails returns the status of the
\* lookup and changes nothing, and get_current_image returns the current
\* image and changes nothing.
C26_CurrentImageIsLastSet ==
    (pc = "image" \/ (pc = "fault" /\ op = "get_current_image"))
    => LET last == imageHistory[Len(imageHistory)]
       IN  /\ THIS_LOADED_IMAGE = MostRecentImage
           /\ (op = "set_current_image" /\ last.status # "Success")
                 => result = Err(last.status)
           /\ (op = "set_current_image" /\ last.status = "Success")
                 => result = Ok(100 + last.handle, 0)
           /\ (op = "get_current_image" /\ pc = "image")
                 => result = Ok(MostRecentImage, 0)

C26_Witness ==
    /\ pc = "image" /\ Len(imageHistory) >= 3
    /\ imageHistory[1].fn = "set_current_image" /\ imageHistory[1].status = "Success"
    /\ imageHistory[1].handle = 2
    /\ imageHistory[2].fn = "set_current_image" /\ imageHistory[2].status = "Unsupported"
    /\ imageHistory[2].handle = 1
    /\ imageHistory[3].fn = "get_current_image"
    /\ THIS_LOADED_IMAGE = 102 /\ result = Ok(102, 0)

====
